---- MODULE Spec2Model ----
(***************************************************************************)
(* Model of the retrieval pipeline of RAG-Data-Platform:                   *)
(*   backend/rag/vector_store.py   FAISSVectorStore                        *)
(*   backend/rag/embeddings.py     EmbeddingService                        *)
(*   backend/agents/*.py           the three stages and the orchestrator   *)
(* The vector store part is checked under Spec, the request pipeline under *)
(* PipelineSpec, the handlers sharing the event loop under ConcSpec, the   *)
(* schema lookups under IndexerSpec.                                       *)
(***************************************************************************)
EXTENDS Integers, Sequences, FiniteSets, TLC

\* ------------------------------------------------------------------ bounds
MaxDocs == 2
MaxBatch == 2
MaxK == 2
Dim == 2

\* ------------------------------------------------------- texts and vectors
\* Schema descriptions built by SchemaIndexer.index_database_schema.
Texts == {"Table: companies", "Table companies, Column ticker (type: VARCHAR)"}

\* The same with the descriptions of a second table.
SchemaDocs ==
  Texts \cup {"Table: market_data", "Table market_data, Column price (type: FLOAT)",
              "Table companies, Column name (type: VARCHAR)"}

\* Questions asked of the index.
Queries == {"which companies have a ticker", "ticker"}

\* The embedding model is a function of the text; two coordinates carry the
\* information, any further coordinate is 0.
Coord(t, i) ==
  CASE t = "Table: companies" -> IF i = 1 THEN 1 ELSE 0
    [] t = "Table companies, Column ticker (type: VARCHAR)" -> IF i = 2 THEN 1 ELSE 0
    [] t = "Table: market_data" -> IF i \in {1, 2} THEN 1 ELSE 0
    [] t = "Table market_data, Column price (type: FLOAT)" -> IF i = 1 THEN 2 ELSE 0
    [] t = "Table companies, Column name (type: VARCHAR)" -> 0
    [] t = "which companies have a ticker" -> 0
    [] t = "ticker" -> IF i = 2 THEN 1 ELSE 0
    [] OTHER -> 0

Embed(t) == [i \in 1..Dim |-> Coord(t, i)]

\* An embedding of another dimensionality (a different embedding model).
EmbedOther(t) == [i \in 1..(Dim + 1) |-> Coord(t, i)]

EmbedOutcomes == {"ok", "fail", "wrongdim"}

\* EmbeddingService.get_embedding: the vector, or [] on any exception.
GetEmbedding(text, outcome) ==
  CASE outcome = "ok"       -> Embed(text)
    [] outcome = "wrongdim" -> EmbedOther(text)
    [] OTHER                -> <<>>

\* A batch embedding that is not all-or-nothing: keeps the first vector.
GetEmbeddingsBatchPartial(texts, outcome) ==
  CASE outcome = "ok"       -> [i \in 1..Len(texts) |-> Embed(texts[i])]
    [] outcome = "wrongdim" -> [i \in 1..Len(texts) |-> EmbedOther(texts[i])]
    [] OTHER                -> <<Embed(texts[1])>>

\* EmbeddingService.get_embeddings_batch: one vector per text, or [] on any
\* exception.
GetEmbeddingsBatch(texts, outcome) ==
  CASE outcome = "ok"       -> [i \in 1..Len(texts) |-> Embed(texts[i])]
    [] outcome = "wrongdim" -> [i \in 1..Len(texts) |-> EmbedOther(texts[i])]
    [] OTHER                -> <<>>

\* ------------------------------------------------------------ faiss index
\* faiss.IndexFlatL2(dimension): d and the stored vectors xb; ntotal = Len(xb).
NewIndex(dimension) == [d |-> dimension, xb |-> <<>>]

NTotal(ix) == Len(ix.xb)

RECURSIVE SumSq(_, _, _)
SumSq(a, b, i) ==
  IF i = 0 THEN 0 ELSE (a[i] - b[i]) * (a[i] - b[i]) + SumSq(a, b, i - 1)

\* IndexFlatL2 reports the squared L2 distance.
L2(a, b) == SumSq(a, b, Len(a))

\* An add that accepts vectors of any dimensionality.
IndexAddUnchecked(ix, vecs) == FALSE

\* Index.add on an (n, d') array: the wrapper asserts d' = d, then appends.
IndexAddRaises(ix, vecs) == \E i \in 1..Len(vecs) : Len(vecs[i]) # ix.d

\* An add that puts the new vectors in front of the stored ones.
IndexAddFront(ix, vecs) == [ix EXCEPT !.xb = vecs \o @]

IndexAdd(ix, vecs) == [ix EXCEPT !.xb = @ \o vecs]

\* label a is ranked before label b for query vector q (labels are 0-based):
\* smaller distance first, equal distances by ascending label.
Before(ix, q, a, b) ==
  \/ L2(q, ix.xb[a + 1]) < L2(q, ix.xb[b + 1])
  \/ L2(q, ix.xb[a + 1]) = L2(q, ix.xb[b + 1]) /\ a < b

RECURSIVE Nearest(_, _, _, _)
Nearest(ix, q, taken, kk) ==
  IF kk = 0 THEN <<>>
  ELSE LET cand == (0..(NTotal(ix) - 1)) \ taken
           best == CHOOSE a \in cand : \A b \in cand \ {a} : Before(ix, q, a, b)
       IN  <<best>> \o Nearest(ix, q, taken \cup {best}, kk - 1)

\* Index.search(query_vector, kk): labels and distances of the kk nearest.
IndexSearch(ix, q, kk) ==
  LET labels == Nearest(ix, q, {}, kk)
  IN  [i \in 1..kk |-> <<labels[i], L2(q, ix.xb[labels[i] + 1])>>]

\* ------------------------------------------------------ persisted artifacts
\* The two artifacts <index_path>.index and <index_path>.metadata.
NoIndexFile == [kind |-> "absent", d |-> 0, ntotal |-> 0, codes |-> <<>>]

NoMetaFile == [kind |-> "absent", n |-> 0, items |-> <<>>]

BadIndexFile == [kind |-> "corrupt", d |-> 0, ntotal |-> 0, codes |-> <<>>]

BadMetaFile == [kind |-> "corrupt", n |-> 0, items |-> <<>>]

RECURSIVE Flatten(_)
Flatten(vecs) == IF vecs = <<>> THEN <<>> ELSE Head(vecs) \o Flatten(Tail(vecs))

\* A writer that loses the most recently added vector.
WriteIndexStale(ix) ==
  LET kept == IF ix.xb = <<>> THEN <<>> ELSE SubSeq(ix.xb, 1, Len(ix.xb) - 1)
  IN  [kind |-> "ok", d |-> ix.d, ntotal |-> Len(kept), codes |-> Flatten(kept)]

\* faiss.write_index: header (d, ntotal) followed by the flat float32 codes.
WriteIndex(ix) ==
  [kind |-> "ok", d |-> ix.d, ntotal |-> NTotal(ix), codes |-> Flatten(ix.xb)]

\* faiss.read_index of a readable file.
ReadIndex(f) ==
  [d |-> f.d,
   xb |-> [i \in 1..f.ntotal |-> SubSeq(f.codes, (i - 1) * f.d + 1, i * f.d)]]

\* A dump that loses the most recently added record.
PickleDumpStale(md) ==
  LET kept == IF md = <<>> THEN <<>> ELSE SubSeq(md, 1, Len(md) - 1)
  IN  [kind |-> "ok", n |-> Len(kept), items |-> kept]

\* pickle.dump / pickle.load of the metadata list.
PickleDump(md) == [kind |-> "ok", n |-> Len(md), items |-> md]

PickleLoad(f) == SubSeq(f.items, 1, f.n)

IoOutcomes == {"ok", "index_write_fail", "meta_open_fail", "meta_write_fail"}

\* FAISSVectorStore.save_index: write_index, then open(..., 'wb') and
\* pickle.dump.  io names the point where the file system fails, if any:
\* a failed write leaves a truncated artifact, a failed open leaves the old one.
SaveIndex(ix, md, fi, fm, io) ==
  CASE io = "index_write_fail" -> [indexFile |-> BadIndexFile, metaFile |-> fm, raised |-> TRUE]
    [] io = "meta_open_fail"   -> [indexFile |-> WriteIndex(ix), metaFile |-> fm, raised |-> TRUE]
    [] io = "meta_write_fail"  -> [indexFile |-> WriteIndex(ix), metaFile |-> BadMetaFile, raised |-> TRUE]
    [] OTHER                   -> [indexFile |-> WriteIndex(ix), metaFile |-> PickleDump(md), raised |-> FALSE]

\* FAISSVectorStore.load_index: self.index is assigned as soon as read_index
\* returns; any later exception is caught and printed.
LoadIndex(ix, md, fi, fm) ==
  IF fi.kind # "ok" THEN [index |-> ix, metadata |-> md]
  ELSE IF fm.kind # "ok" THEN [index |-> ReadIndex(fi), metadata |-> md]
  ELSE [index |-> ReadIndex(fi), metadata |-> PickleLoad(fm)]

\* FAISSVectorStore.__init__: an empty index, loaded if the .index file exists.
Construct(dimension, fi, fm) ==
  IF fi.kind # "absent"
  THEN LoadIndex(NewIndex(dimension), <<>>, fi, fm)
  ELSE [index |-> NewIndex(dimension), metadata |-> <<>>]

\* FAISSVectorStore.add_documents.
AddDocuments(ix, md, fi, fm, texts, meta, embed, io) ==
  LET embeddings == GetEmbeddingsBatch(texts, embed)
  IN  IF embeddings = <<>>
      THEN [index |-> ix, metadata |-> md, indexFile |-> fi, metaFile |-> fm,
            raised |-> FALSE, added |-> FALSE]
      ELSE IF IndexAddRaises(ix, embeddings)
      THEN [index |-> ix, metadata |-> md, indexFile |-> fi, metaFile |-> fm,
            raised |-> TRUE, added |-> FALSE]
      ELSE LET ix2 == IndexAdd(ix, embeddings)
               md2 == md \o meta
               sv  == SaveIndex(ix2, md2, fi, fm, io)
           IN  [index |-> ix2, metadata |-> md2, indexFile |-> sv.indexFile,
                metaFile |-> sv.metaFile, raised |-> sv.raised, added |-> TRUE]

Min(a, b) == IF a < b THEN a ELSE b

RECURSIVE Collect(_, _)
\* the loop of search: keep the hits whose label has a metadata record
Collect(md, hits) ==
  IF hits = <<>> THEN <<>>
  ELSE LET h == Head(hits)
       IN  (IF h[1] < Len(md) THEN <<<<md[h[1] + 1], h[2]>>>> ELSE <<>>)
             \o Collect(md, Tail(hits))

K0Outcomes == {"empty", "assert"}

\* A search that lets the embedding failure escape to its caller.
SearchPropagatesFailure(ix, md, query, k, embed, k0) ==
  LET query_embedding == GetEmbedding(query, embed)
      kk == Min(k, NTotal(ix))
  IN  IF query_embedding = <<>> THEN [raised |-> TRUE, results |-> <<>>]
      ELSE IF Len(query_embedding) # ix.d THEN [raised |-> TRUE, results |-> <<>>]
      ELSE IF kk = 0 /\ k0 = "assert" THEN [raised |-> TRUE, results |-> <<>>]
      ELSE [raised |-> FALSE, results |-> Collect(md, IndexSearch(ix, query_embedding, kk))]

\* FAISSVectorStore.search.  The query vector goes to Index.search with
\* k = min(k, ntotal); the faiss wrapper asserts the query dimensionality,
\* and whether it accepts k = 0 depends on the installed faiss release (k0).
Search(ix, md, query, k, embed, k0) ==
  LET query_embedding == GetEmbedding(query, embed)
      kk == Min(k, NTotal(ix))
  IN  IF query_embedding = <<>> THEN [raised |-> FALSE, results |-> <<>>]
      ELSE IF Len(query_embedding) # ix.d THEN [raised |-> TRUE, results |-> <<>>]
      ELSE IF kk = 0 /\ k0 = "assert" THEN [raised |-> TRUE, results |-> <<>>]
      ELSE [raised |-> FALSE, results |-> Collect(md, IndexSearch(ix, query_embedding, kk))]

\* FAISSVectorStore.get_stats.
GetStats(ix, md, dimension) ==
  [total_documents |-> NTotal(ix), dimension |-> dimension, metadata_count |-> Len(md)]

\* -------------------------------------------------------- schema indexer
\* Interpretation of a metadata record (the fields index_database_schema
\* stores next to the text).
DocType(t) == IF t \in {"Table: companies", "Table: market_data"} THEN "table" ELSE "column"

DocTable(t) ==
  IF t \in {"Table: market_data", "Table market_data, Column price (type: FLOAT)"}
  THEN "market_data"
  ELSE "companies"

DocColumn(t) ==
  CASE t = "Table market_data, Column price (type: FLOAT)" -> "price"
    [] t = "Table companies, Column name (type: VARCHAR)" -> "name"
    [] OTHER -> "ticker"

AllTables == {DocTable(t) : t \in SchemaDocs}

\* The batch index_database_schema builds for the schema: the table, then
\* its columns.
SchemaTexts == <<"Table: companies", "Table companies, Column ticker (type: VARCHAR)">>

\* SchemaIndexer.get_relevant_tables, the loop: the set of table names of
\* the hits.
RelevantTables(results) == {DocTable(results[i][1]) : i \in 1..Len(results)}

\* list(tables) of a set of strings: the elements once each, in the order of
\* the hash table, which the hash seed of the process decides.
ListOrders(S) ==
  {f \in [1..Cardinality(S) -> S] : \A i, j \in 1..Cardinality(S) : i # j => f[i] # f[j]}

\* A column list that takes every column hit, seen before or not.
AppendAlways(cols, column) == Append(cols, column)

\* `if column not in table_columns[table]: table_columns[table].append(column)`
AppendOnce(cols, column) ==
  IF \E j \in 1..Len(cols) : cols[j] = column THEN cols ELSE Append(cols, column)

RECURSIVE RelevantColumns(_)
\* SchemaIndexer.get_relevant_columns: per table, the columns named by the
\* hits of type column, first discovery first, no duplicates.
RelevantColumns(results) ==
  IF results = <<>> THEN [t \in AllTables |-> <<>>]
  ELSE LET n    == Len(results)
           rest == RelevantColumns(SubSeq(results, 1, n - 1))
           doc  == results[n][1]
       IN  IF DocType(doc) = "column"
           THEN [rest EXCEPT ![DocTable(doc)] = AppendOnce(@, DocColumn(doc))]
           ELSE rest

\* ------------------------------------------------------------------ stages
KTables == 5
KColumns == 10

Questions == {"What was total revenue in 2023?",
              "What is the stock price of Acme?",
              "Show the latest 10-K filing of Acme",
              "Compare the stock price of Acme with its latest filing"}

\* A market-keyword test that every question passes.
HasMarketKeywordLoose(q) == q # ""

\* any(keyword in user_query ...) for ["stock","ticker","market","price","yahoo"]
HasMarketKeyword(q) ==
  q \in {"What is the stock price of Acme?",
         "Compare the stock price of Acme with its latest filing"}

\* any(keyword in user_query ...) for ["sec","edgar","filing","10-k","10-q"]
HasFilingKeyword(q) ==
  q \in {"Show the latest 10-K filing of Acme",
         "Compare the stock price of Acme with its latest filing"}

Absent == "<absent>"

\* A key that is present with the value None (a NULL of a nullable column,
\* such as companies.ticker).
Null == "<null>"

\* A test that only asks whether the key was found.
TruthyAny(v) == v # Absent

\* `if value:` on an extracted identifier.
Truthy(v) == v \notin {Absent, Null}

\* Rows the executor returns: dicts that may or may not have the keys
\* ticker and name.
RowTotal == [ticker |-> Absent, name |-> Absent]

RowCompany == [ticker |-> "ACME", name |-> "Acme Corp"]

RowPrivate == [ticker |-> Null, name |-> "Private Co"]

Datasets == {<<>>, <<RowCompany>>, <<RowTotal, RowCompany>>, <<RowPrivate, RowCompany>>}

\* db.execute(text(sql)): raises, or returns rows.
ExecOutcomes ==
  {[ok |-> FALSE, rows |-> <<>>]} \cup {[ok |-> TRUE, rows |-> d] : d \in Datasets}

Entry(agent, step) == [agent |-> agent, step |-> step]

TranslatorOutcomes == {"sql", "fenced", "fence_only", "empty", "error"}

\* The completion of the provider as a sequence of pieces of text: the
\* opening fence marker with its language tag (FenceSql), the bare fence
\* marker (Fence), a line break (NL), the statement.
FenceSql == "<fence>sql"

Fence == "<fence>"

NL == "<newline>"

Completion(tr) ==
  CASE tr = "sql"        -> <<"SELECT">>
    [] tr = "fenced"     -> <<FenceSql, NL, "SELECT", NL, Fence>>
    [] tr = "fence_only" -> <<FenceSql, NL, Fence>>
    [] OTHER             -> <<>>

\* str.strip(): leading and trailing whitespace goes.
Strip(pieces) ==
  LET solid == {i \in 1..Len(pieces) : pieces[i] \notin {" ", NL}}
  IN  IF solid = {} THEN <<>>
      ELSE SubSeq(pieces, CHOOSE i \in solid : \A j \in solid : i <= j,
                          CHOOSE i \in solid : \A j \in solid : j <= i)

IsFence(piece) == piece \in {FenceSql, Fence}

\* .replace(<fence>sql, "").replace(<fence>, "")
RemoveFences(pieces) == SelectSeq(pieces, LAMBDA piece : ~IsFence(piece))

\* A cleaning that leaves the fence markers in.
CleanSqlKeepFences(pieces) == Strip(pieces)

\* content.strip(), the two replace calls, strip() again
CleanSql(pieces) == Strip(RemoveFences(Strip(pieces)))

RECURSIVE Join(_)
\* the pieces as one string
Join(pieces) == IF pieces = <<>> THEN "" ELSE Head(pieces) \o Join(Tail(pieces))

\* A translator that answers a provider failure with a query of its own.
GenerateSqlGuess(tr, relevant_tables) ==
  [sql |-> IF tr = "error" THEN "SELECT" ELSE Join(CleanSql(Completion(tr))),
   error |-> Absent, relevant_tables |-> relevant_tables]

\* SQLGenerator.generate_sql: the cleaned completion, or sql None and the
\* error text when anything in the try block raises (the provider call, or
\* reading the completion out of a malformed response).
GenerateSql(tr, relevant_tables) ==
  IF tr = "error"
  THEN [sql |-> "None", error |-> "provider error", relevant_tables |-> relevant_tables]
  ELSE [sql |-> Join(CleanSql(Completion(tr))), error |-> Absent,
        relevant_tables |-> relevant_tables]

NoSqlResult == [sql |-> Absent, error |-> Absent, relevant_tables |-> {}]

\* An executor that answers a failed statement with no rows.
RunQuerySwallow(sql, ex) == IF ex.ok THEN ex ELSE [ok |-> TRUE, rows |-> <<>>]

\* self.db.execute(text(generated_sql)) and the conversion of the rows:
\* either it raises or it yields the rows as dicts.
RunQuery(sql, ex) == IF ex.ok THEN ex ELSE [ok |-> FALSE, rows |-> <<>>]

NoResult ==
  [success |-> FALSE, sql |-> Absent, error |-> Absent, has_data |-> FALSE,
   data |-> <<>>, row_count |-> -1, relevant_tables |-> {}, reasoning |-> <<>>]

\* RetrievalAgent.execute.  s1, s2 are the two searches of the schema step,
\* tr the translator outcome, ex the executor outcome.
RetrievalExecute(s1, s2, tr, ex) ==
  LET relevant_tables == RelevantTables(s1.results)
      table_columns   == RelevantColumns(s2.results)
      sql_result      == GenerateSql(tr, relevant_tables)
      run             == RunQuery(sql_result.sql, ex)
      log0 == <<Entry("RetrievalAgent", "query_received"),
                Entry("RetrievalAgent", "schema_retrieval")>>
  IN  IF s1.raised
      THEN [raised |-> TRUE, translator_calls |-> 0, executor_calls |-> 0,
            tables |-> {}, columns |-> [t \in AllTables |-> <<>>],
            sql_result |-> NoSqlResult, result |-> NoResult]
      ELSE IF s2.raised
      THEN [raised |-> TRUE, translator_calls |-> 0, executor_calls |-> 0,
            tables |-> relevant_tables, columns |-> [t \in AllTables |-> <<>>],
            sql_result |-> NoSqlResult, result |-> NoResult]
      ELSE IF sql_result.sql \in {"", "None"}
      THEN [raised |-> FALSE, translator_calls |-> 1, executor_calls |-> 0,
            tables |-> relevant_tables, columns |-> table_columns,
            sql_result |-> sql_result,
            result |-> [NoResult EXCEPT
                          !.error = "Failed to generate SQL query",
                          !.reasoning = Append(log0, Entry("RetrievalAgent", "sql_generation_failed"))]]
      ELSE IF ~run.ok
      THEN [raised |-> FALSE, translator_calls |-> 1, executor_calls |-> 1,
            tables |-> relevant_tables, columns |-> table_columns,
            sql_result |-> sql_result,
            result |-> [NoResult EXCEPT
                          !.error = "Query execution failed",
                          !.sql = sql_result.sql,
                          !.reasoning = log0 \o <<Entry("RetrievalAgent", "sql_generated"),
                                                  Entry("RetrievalAgent", "query_execution_failed")>>]]
      ELSE [raised |-> FALSE, translator_calls |-> 1, executor_calls |-> 1,
            tables |-> relevant_tables, columns |-> table_columns,
            sql_result |-> sql_result,
            result |-> [success |-> TRUE, sql |-> sql_result.sql, error |-> Absent,
                        has_data |-> TRUE, data |-> run.rows, row_count |-> Len(run.rows),
                        relevant_tables |-> relevant_tables,
                        reasoning |-> log0 \o <<Entry("RetrievalAgent", "sql_generated"),
                                                Entry("RetrievalAgent", "query_executed")>>]]

AnalysisOutcomes == {"ok", "provider_error", "no_keys", "bad_insights"}

\* An Analysis stage without the except branch of _analyze_results.
AnalysisExecuteNoFallback(retrieval_result, an) ==
  LET started == <<Entry("AnalysisAgent", "analysis_started")>>
      done    == Append(started, Entry("AnalysisAgent", "analysis_completed"))
  IN  CASE an \in {"bad_insights", "provider_error"} ->
             [raised |-> TRUE, success |-> FALSE, answer |-> Absent, answer_rows |-> -1,
              fallback |-> FALSE, reasoning |-> started]
        [] an = "no_keys" ->
             [raised |-> FALSE, success |-> TRUE, answer |-> "", answer_rows |-> -1,
              fallback |-> FALSE, reasoning |-> done]
        [] OTHER ->
             [raised |-> FALSE, success |-> TRUE, answer |-> "completion answer",
              answer_rows |-> -1, fallback |-> FALSE, reasoning |-> done]

\* AnalysisAgent.execute on a successful retrieval result.  The completion
\* is a JSON object: with the three keys (ok), without them (no_keys), or
\* with an insights value that has no len() (bad_insights); provider_error
\* is any exception of the call or of json.loads.  answer_rows is the number
\* the template answer f"Query returned {len(data)} results." embeds.
AnalysisExecute(retrieval_result, an) ==
  LET started == <<Entry("AnalysisAgent", "analysis_started")>>
      done    == Append(started, Entry("AnalysisAgent", "analysis_completed"))
  IN  CASE an = "bad_insights" ->
             [raised |-> TRUE, success |-> FALSE, answer |-> Absent, answer_rows |-> -1,
              fallback |-> FALSE, reasoning |-> started]
        [] an = "provider_error" ->
             [raised |-> FALSE, success |-> TRUE, answer |-> "Query returned n results.",
              answer_rows |-> Len(retrieval_result.data),
              fallback |-> TRUE, reasoning |-> done]
        [] an = "no_keys" ->
             [raised |-> FALSE, success |-> TRUE, answer |-> "", answer_rows |-> -1,
              fallback |-> FALSE, reasoning |-> done]
        [] OTHER ->
             [raised |-> FALSE, success |-> TRUE, answer |-> "completion answer",
              answer_rows |-> -1, fallback |-> FALSE, reasoning |-> done]

NoAnalysis ==
  [raised |-> FALSE, success |-> FALSE, answer |-> Absent, answer_rows |-> -1,
   fallback |-> FALSE, reasoning |-> <<>>]

RECURSIVE ExtractTicker(_)
\* EnrichmentAgent._extract_ticker: row["ticker"] of the first row that has
\* the key, whatever its value.
ExtractTicker(data) ==
  IF data = <<>> THEN Absent
  ELSE IF Head(data).ticker # Absent THEN Head(data).ticker
  ELSE ExtractTicker(Tail(data))

RECURSIVE ExtractCompanyIdentifier(_)
\* EnrichmentAgent._extract_company_identifier: name, else ticker, of the
\* first row that has either key.
ExtractCompanyIdentifier(data) ==
  IF data = <<>> THEN Absent
  ELSE IF Head(data).name # Absent THEN Head(data).name
  ELSE IF Head(data).ticker # Absent THEN Head(data).ticker
  ELSE ExtractCompanyIdentifier(Tail(data))

YahooOutcomes == {"data", "error"}

SecOutcomes == {"nokey", "data", "non200", "error"}

\* An Enrichment stage that gives up at the first provider error.
EnrichmentExecuteFailFast(q, data, yahoo, sec) ==
  LET ticker    == IF HasMarketKeyword(q) THEN ExtractTicker(data) ELSE Absent
      failed    == Truthy(ticker) /\ yahoo = "error"
      company   == IF HasFilingKeyword(q) /\ ~failed
                   THEN ExtractCompanyIdentifier(data) ELSE Absent
      market    == IF ~Truthy(ticker) \/ failed THEN <<>>
                   ELSE <<Entry("EnrichmentAgent", "yahoo_finance_enrichment")>>
      filing    == IF ~Truthy(company) \/ sec # "data" THEN <<>>
                   ELSE <<Entry("EnrichmentAgent", "sec_edgar_enrichment")>>
      enriched  == (IF Truthy(ticker) /\ yahoo = "data" THEN {"market_data"} ELSE {})
                     \cup (IF Truthy(company) /\ sec = "data" THEN {"sec_data"} ELSE {})
  IN  [success |-> ~failed /\ ~(Truthy(company) /\ sec = "error"),
       enriched_data |-> enriched,
       yahoo_ticker |-> IF Truthy(ticker) THEN ticker ELSE Absent,
       yahoo |-> IF Truthy(ticker) THEN yahoo ELSE "-",
       sec_company |-> IF Truthy(company) THEN company ELSE Absent,
       sec |-> IF Truthy(company) THEN sec ELSE "-",
       reasoning |-> <<Entry("EnrichmentAgent", "enrichment_started")>> \o market \o filing]

\* EnrichmentAgent.execute.  yahoo_ticker and sec_company are the arguments
\* of the two fetches (Absent when the fetch is not called), yahoo and sec
\* what the called fetch met.
EnrichmentExecute(q, data, yahoo, sec) ==
  LET ticker    == IF HasMarketKeyword(q) THEN ExtractTicker(data) ELSE Absent
      company   == IF HasFilingKeyword(q) THEN ExtractCompanyIdentifier(data) ELSE Absent
      market    == IF ~Truthy(ticker) THEN <<>>
                   ELSE IF yahoo = "data"
                   THEN <<Entry("EnrichmentAgent", "yahoo_finance_enrichment")>>
                   ELSE <<Entry("EnrichmentAgent", "yahoo_finance_error")>>
      filing    == IF ~Truthy(company) \/ sec \in {"nokey", "non200"} THEN <<>>
                   ELSE IF sec = "data"
                   THEN <<Entry("EnrichmentAgent", "sec_edgar_enrichment")>>
                   ELSE <<Entry("EnrichmentAgent", "sec_edgar_error")>>
      enriched  == (IF Truthy(ticker) /\ yahoo = "data" THEN {"market_data"} ELSE {})
                     \cup (IF Truthy(company) /\ sec = "data" THEN {"sec_data"} ELSE {})
      noop      == IF enriched = {}
                   THEN <<Entry("EnrichmentAgent", "no_enrichment_needed")>>
                   ELSE <<>>
  IN  [success |-> TRUE, enriched_data |-> enriched,
       yahoo_ticker |-> IF Truthy(ticker) THEN ticker ELSE Absent,
       yahoo |-> IF Truthy(ticker) THEN yahoo ELSE "-",
       sec_company |-> IF Truthy(company) THEN company ELSE Absent,
       sec |-> IF Truthy(company) THEN sec ELSE "-",
       reasoning |-> <<Entry("EnrichmentAgent", "enrichment_started")>> \o market \o filing \o noop]

\* AgentOrchestrator._combine_reasoning.
RECURSIVE CombineReasoning(_)
CombineReasoning(results) ==
  IF results = <<>> THEN <<>> ELSE Head(results).reasoning \o CombineReasoning(Tail(results))

SinkOutcomes == {"ok", "raises"}

\* A _log_query that lets the failure of the audit write escape.
LogQueryReraise(log, rec, sink) ==
  IF sink = "ok"
  THEN [log |-> Append(log, rec), raised |-> FALSE]
  ELSE [log |-> log, raised |-> TRUE]

\* AgentOrchestrator._log_query: add and commit the QueryLog row; on any
\* exception print and roll back, and return normally.
LogQuery(log, rec, sink) ==
  IF sink = "ok"
  THEN [log |-> Append(log, rec), raised |-> FALSE]
  ELSE [log |-> log, raised |-> FALSE]

\* An enrichment label that reports every request as enriched.
EnrichmentLabelAlways(enriched_data) == "completed"

\* agent_flow.enrichment of the final response.
EnrichmentLabel(enriched_data) == IF enriched_data # {} THEN "completed" ELSE "skipped"

NoRetrieval ==
  [raised |-> FALSE, translator_calls |-> 0, executor_calls |-> 0, tables |-> {},
   columns |-> [t \in AllTables |-> <<>>], sql_result |-> NoSqlResult,
   result |-> NoResult, translator |-> "-", executor |-> "-",
   embed1 |-> "-", embed2 |-> "-", search1 |-> <<>>, search2 |-> <<>>]

NoEnrichment ==
  [success |-> FALSE, enriched_data |-> {}, yahoo_ticker |-> Absent, yahoo |-> "-",
   sec_company |-> Absent, sec |-> "-", reasoning |-> <<>>]

NoCalls == [analysis |-> 0, enrichment |-> 0, an |-> "-", sink |-> "-"]

NoResponse ==
  [success |-> FALSE, error |-> Absent, sql |-> Absent, answer |-> Absent,
   has_data |-> FALSE, row_count |-> -1, enriched_data |-> {}, enrichment |-> Absent,
   flow_retrieval |-> Absent, flow_analysis |-> Absent, has_latency |-> FALSE]

\* ------------------------------------------------------------------- state
VARIABLES
  index,      \* self.index
  metadata,   \* self.metadata
  indexFile,  \* <index_path>.index
  metaFile,   \* <index_path>.metadata
  last,       \* the most recent call on the store and what it returned
  pc,         \* where the current process_query call is
  question,   \* user_query of the current call
  retrieval,  \* what RetrievalAgent.execute did and returned
  analysis_result,
  enrichment_result,
  response,   \* what process_query returned
  audit,      \* the QueryLog rows persisted so far
  calls,      \* invocations of the later stages in the current call
  loop,       \* the handler the event loop is running, or "free"
  at,         \* per handler: the statement it is at
  batch,      \* per indexing handler: the texts of its add_documents call
  vectors,    \* per indexing handler: the embeddings of its batch
  seen        \* what the most recent search or get_stats observed

storeVars == <<index, metadata, indexFile, metaFile, last>>

pipeVars == <<pc, question, retrieval, analysis_result, enrichment_result,
              response, audit, calls>>

concVars == <<loop, at, batch, vectors, seen>>

vars == <<index, metadata, indexFile, metaFile, last, pc, question, retrieval,
          analysis_result, enrichment_result, response, audit, calls,
          loop, at, batch, vectors, seen>>

\* Handlers in flight at the same time: two POST /api/index-schema and one
\* POST /api/query.
Writers == {"w1", "w2"}

Tasks == Writers \cup {"r"}

NoObservation ==
  [op |-> "-", total_documents |-> 0, metadata_count |-> 0, hits |-> 0, half |-> {}]

Call(op, embed, io, raised, k, query, results, afterSave) ==
  [op |-> op, embed |-> embed, io |-> io, raised |-> raised, k |-> k,
   query |-> query, results |-> results, after_save |-> afterSave, tables |-> <<>>,
   columns |-> [t \in AllTables |-> <<>>]]

\* First start of the service: no artifact exists, the store is constructed.
Init ==
  /\ indexFile = NoIndexFile
  /\ metaFile = NoMetaFile
  /\ index = Construct(Dim, NoIndexFile, NoMetaFile).index
  /\ metadata = Construct(Dim, NoIndexFile, NoMetaFile).metadata
  /\ last = Call("construct", "-", "-", FALSE, 0, "-", <<>>, FALSE)
  /\ pc = "Idle"
  /\ question = "-"
  /\ retrieval = NoRetrieval
  /\ analysis_result = NoAnalysis
  /\ enrichment_result = NoEnrichment
  /\ response = NoResponse
  /\ audit = <<>>
  /\ calls = NoCalls
  /\ loop = "free"
  /\ at = [t \in Tasks |-> "idle"]
  /\ batch = [w \in Writers |-> <<>>]
  /\ vectors = [w \in Writers |-> <<>>]
  /\ seen = NoObservation

Batches == UNION {[1..n -> Texts] : n \in 1..MaxBatch}

AddDocumentsCall ==
  \E texts \in Batches, embed \in EmbedOutcomes :
  \E io \in (IF embed = "ok" THEN IoOutcomes ELSE {"ok"}) :
    /\ NTotal(index) + Len(texts) <= MaxDocs
    /\ Len(metadata) + Len(texts) <= MaxDocs
    /\ LET r == AddDocuments(index, metadata, indexFile, metaFile, texts, texts, embed, io)
       IN  /\ index' = r.index
           /\ metadata' = r.metadata
           /\ indexFile' = r.indexFile
           /\ metaFile' = r.metaFile
           /\ last' = Call("add_documents", embed, IF r.added THEN io ELSE "-",
                           r.raised, 0, "-", <<>>, FALSE)
           /\ UNCHANGED <<pipeVars, concVars>>

SearchCall ==
  \E q \in Queries, k \in 1..MaxK, embed \in EmbedOutcomes :
  \E k0 \in (IF NTotal(index) = 0 /\ embed = "ok" THEN K0Outcomes ELSE {"empty"}) :
    LET r == Search(index, metadata, q, k, embed, k0)
    IN  /\ last' = Call("search", embed, "-", r.raised, k, q, r.results, FALSE)
        /\ UNCHANGED <<index, metadata, indexFile, metaFile>>
        /\ UNCHANGED <<pipeVars, concVars>>

SaveIndexCall ==
  \E io \in IoOutcomes :
    LET r == SaveIndex(index, metadata, indexFile, metaFile, io)
    IN  /\ indexFile' = r.indexFile
        /\ metaFile' = r.metaFile
        /\ last' = Call("save_index", "-", io, r.raised, 0, "-", <<>>, FALSE)
        /\ UNCHANGED <<index, metadata>>
        /\ UNCHANGED <<pipeVars, concVars>>

LoadIndexCall ==
  LET r == LoadIndex(index, metadata, indexFile, metaFile)
  IN  /\ index' = r.index
      /\ metadata' = r.metadata
      /\ last' = Call("load_index", "-", "-", FALSE, 0, "-", <<>>, FALSE)
      /\ UNCHANGED <<indexFile, metaFile>>
      /\ UNCHANGED <<pipeVars, concVars>>

\* The service restarts: a fresh FAISSVectorStore on the same path prefix.
ConstructCall ==
  LET r == Construct(Dim, indexFile, metaFile)
  IN  /\ index' = r.index
      /\ metadata' = r.metadata
      /\ last' = Call("construct", "-", "-", FALSE, 0, "-", <<>>,
                      last.op = "save_index" /\ ~last.raised)
      /\ UNCHANGED <<indexFile, metaFile>>
      /\ UNCHANGED <<pipeVars, concVars>>

Next ==
  \/ AddDocumentsCall
  \/ SearchCall
  \/ SaveIndexCall
  \/ LoadIndexCall
  \/ ConstructCall

Spec == Init /\ [][Next]_vars

\* -------------------------------------------------------- request pipeline
\* POST /api/index-schema: index_database_schema passes the schema batch to
\* add_documents.
IndexSchemaCall ==
  \E embed \in EmbedOutcomes :
  \E io \in (IF embed = "ok" THEN IoOutcomes ELSE {"ok"}) :
    /\ pc \in {"Idle", "Done", "Aborted", "Raised"}
    /\ NTotal(index) + Len(SchemaTexts) <= MaxDocs
    /\ Len(metadata) + Len(SchemaTexts) <= MaxDocs
    /\ LET r == AddDocuments(index, metadata, indexFile, metaFile,
                             SchemaTexts, SchemaTexts, embed, io)
       IN  /\ index' = r.index
           /\ metadata' = r.metadata
           /\ indexFile' = r.indexFile
           /\ metaFile' = r.metaFile
           /\ last' = Call("add_documents", embed, IF r.added THEN io ELSE "-",
                           r.raised, 0, "-", <<>>, FALSE)
    /\ UNCHANGED <<pipeVars, concVars>>

\* One process_query call is followed from its start to its resolution.
\* process_query up to the first await: start_time and the fresh context.
StartRequest ==
  \E q \in Questions :
    /\ pc = "Idle"
    /\ pc' = "Retrieval"
    /\ question' = q
    /\ retrieval' = NoRetrieval
    /\ analysis_result' = NoAnalysis
    /\ enrichment_result' = NoEnrichment
    /\ response' = NoResponse
    /\ calls' = NoCalls
    /\ UNCHANGED <<audit, index, metadata, indexFile, metaFile, last, concVars>>

\* Step 1 of process_query: RetrievalAgent.execute and, when it returns a
\* failed result, the failed audit record and the failure response.
RetrievalStage ==
  \E e1 \in EmbedOutcomes, e2 \in EmbedOutcomes, k0 \in K0Outcomes,
     tr \in TranslatorOutcomes, ex \in ExecOutcomes, sink \in SinkOutcomes :
    /\ pc = "Retrieval"
    /\ LET s1 == Search(index, metadata, question, KTables, e1, k0)
           s2 == Search(index, metadata, question, KColumns, e2, k0)
           r  == RetrievalExecute(s1, s2, tr, ex)
       IN  /\ retrieval' = [raised |-> r.raised, translator_calls |-> r.translator_calls,
                            executor_calls |-> r.executor_calls, tables |-> r.tables,
                            columns |-> r.columns, sql_result |-> r.sql_result,
                            result |-> r.result,
                            translator |-> IF r.translator_calls = 1 THEN tr ELSE "-",
                            executor |-> IF r.executor_calls = 0 THEN "-"
                                         ELSE IF ex.ok THEN "ok" ELSE "fails",
                            embed1 |-> e1, embed2 |-> IF s1.raised THEN "-" ELSE e2,
                            search1 |-> s1.results,
                            search2 |-> IF s1.raised THEN <<>> ELSE s2.results]
           /\ IF r.raised
              THEN /\ pc' = "Raised"
                   /\ UNCHANGED <<audit, response, calls>>
              ELSE IF ~r.result.success
              THEN LET lg == LogQuery(audit,
                                   [success |-> FALSE, generated_sql |-> r.result.sql,
                                    final_answer |-> Absent, error_message |-> r.result.error,
                                    reasoning |-> CombineReasoning(<<r.result>>)], sink)
                   IN  /\ audit' = lg.log
                       /\ calls' = [calls EXCEPT !.sink = sink]
                       /\ IF lg.raised
                          THEN /\ pc' = "Raised"
                               /\ UNCHANGED response
                          ELSE /\ response' = [NoResponse EXCEPT !.error = r.result.error,
                                                                !.has_latency = TRUE]
                               /\ pc' = "Aborted"
              ELSE /\ pc' = "Analysis"
                   /\ UNCHANGED <<audit, response, calls>>
    /\ UNCHANGED <<question, analysis_result, enrichment_result>>
    /\ UNCHANGED <<storeVars, concVars>>

\* Step 2 of process_query: AnalysisAgent.execute.
AnalysisStage ==
  \E an \in AnalysisOutcomes :
    /\ pc = "Analysis"
    /\ LET a == AnalysisExecute(retrieval.result, an)
       IN  /\ analysis_result' = a
           /\ pc' = IF a.raised THEN "Raised" ELSE "Enrichment"
    /\ calls' = [calls EXCEPT !.analysis = @ + 1, !.an = an]
    /\ UNCHANGED <<question, retrieval, enrichment_result, response, audit>>
    /\ UNCHANGED <<storeVars, concVars>>

\* Step 3 of process_query and the rest of it: EnrichmentAgent.execute, the
\* final response, the successful audit record.
EnrichmentStage ==
  \E yahoo \in YahooOutcomes, sec \in SecOutcomes, sink \in SinkOutcomes :
    /\ pc = "Enrichment"
    /\ LET e == EnrichmentExecute(question, retrieval.result.data, yahoo, sec)
           lg == LogQuery(audit,
                          [success |-> TRUE, generated_sql |-> retrieval.result.sql,
                           final_answer |-> analysis_result.answer, error_message |-> Absent,
                           reasoning |-> CombineReasoning(<<retrieval.result, analysis_result, e>>)],
                          sink)
       IN  /\ enrichment_result' = e
           /\ audit' = lg.log
           /\ IF lg.raised
              THEN /\ pc' = "Raised"
                   /\ UNCHANGED response
              ELSE /\ response' = [success |-> TRUE, error |-> Absent,
                                   sql |-> retrieval.result.sql,
                                   answer |-> analysis_result.answer,
                                   has_data |-> TRUE,
                                   row_count |-> retrieval.result.row_count,
                                   enriched_data |-> e.enriched_data,
                                   enrichment |-> EnrichmentLabel(e.enriched_data),
                                   flow_retrieval |-> "completed",
                                   flow_analysis |-> "completed",
                                   has_latency |-> TRUE]
                   /\ pc' = "Done"
    /\ calls' = [calls EXCEPT !.enrichment = @ + 1, !.sink = sink]
    /\ UNCHANGED <<question, retrieval, analysis_result>>
    /\ UNCHANGED <<storeVars, concVars>>

PipelineNext ==
  \/ IndexSchemaCall
  \/ StartRequest
  \/ RetrievalStage
  \/ AnalysisStage
  \/ EnrichmentStage

PipelineSpec == Init /\ [][PipelineNext]_vars

\* ------------------------------------------------- handlers on the event loop
\* Every endpoint is an `async def` and the application runs in one uvicorn
\* process, so handlers run on one event loop: a handler keeps the loop until
\* it returns or reaches an await that suspends.

\* An event loop that switches handlers after every statement (handlers run
\* on threads).
SuspendsAnywhere(position) == TRUE

\* The statements at which a handler gives up the event loop.  The store and
\* indexer code is synchronous; the one suspending await of a request is the
\* HTTP call of _fetch_sec_edgar.
Suspends(position) == position = "sec_fetch"

\* handler t may run its next statement
Runnable(t) == loop = t \/ (loop = "free" /\ (at[t] = "idle" \/ Suspends(at[t])))

\* who has the loop once handler t stands at position
Hand(t, position) == IF position = "idle" \/ Suspends(position) THEN "free" ELSE t

Observation(op, hits) ==
  [op |-> op, total_documents |-> NTotal(index), metadata_count |-> Len(metadata),
   hits |-> hits, half |-> {w \in Writers : at[w] = "added"}]

\* add_documents, first statement: the batch embedding call.
EmbedBatchStep(w) ==
  \E texts \in Batches, embed \in EmbedOutcomes :
    /\ Runnable(w)
    /\ at[w] = "idle"
    /\ NTotal(index) + Len(texts) <= MaxDocs
    /\ Len(metadata) + Len(texts) <= MaxDocs
    /\ batch' = [batch EXCEPT ![w] = texts]
    /\ vectors' = [vectors EXCEPT ![w] = GetEmbeddingsBatch(texts, embed)]
    /\ at' = [at EXCEPT ![w] = "embedded"]
    /\ loop' = Hand(w, "embedded")
    /\ UNCHANGED <<storeVars, pipeVars, seen>>

\* `if embeddings:` and self.index.add.
IndexAddStep(w) ==
  /\ Runnable(w)
  /\ at[w] = "embedded"
  /\ IF vectors[w] = <<>> \/ IndexAddRaises(index, vectors[w])
     THEN /\ at' = [at EXCEPT ![w] = "idle"]
          /\ batch' = [batch EXCEPT ![w] = <<>>]
          /\ vectors' = [vectors EXCEPT ![w] = <<>>]
          /\ loop' = "free"
          /\ UNCHANGED index
     ELSE /\ index' = IndexAdd(index, vectors[w])
          /\ at' = [at EXCEPT ![w] = "added"]
          /\ loop' = Hand(w, "added")
          /\ UNCHANGED <<batch, vectors>>
  /\ UNCHANGED <<metadata, indexFile, metaFile, last, pipeVars, seen>>

\* self.metadata.extend.
MetadataExtendStep(w) ==
  /\ Runnable(w)
  /\ at[w] = "added"
  /\ metadata' = metadata \o batch[w]
  /\ at' = [at EXCEPT ![w] = "extended"]
  /\ loop' = Hand(w, "extended")
  /\ UNCHANGED <<index, indexFile, metaFile, last, pipeVars, batch, vectors, seen>>

\* save_index, first statement: faiss.write_index.
WriteIndexStep(w) ==
  \E io \in {"ok", "index_write_fail"} :
    /\ Runnable(w)
    /\ at[w] = "extended"
    /\ indexFile' = SaveIndex(index, metadata, indexFile, metaFile, io).indexFile
    /\ IF io = "ok"
       THEN /\ at' = [at EXCEPT ![w] = "index_written"]
            /\ loop' = Hand(w, "index_written")
            /\ UNCHANGED <<batch, vectors>>
       ELSE /\ at' = [at EXCEPT ![w] = "idle"]
            /\ batch' = [batch EXCEPT ![w] = <<>>]
            /\ vectors' = [vectors EXCEPT ![w] = <<>>]
            /\ loop' = "free"
    /\ UNCHANGED <<index, metadata, metaFile, last, pipeVars, seen>>

\* save_index, second statement: open and pickle.dump; add_documents returns.
PickleDumpStep(w) ==
  \E io \in {"ok", "meta_open_fail", "meta_write_fail"} :
    /\ Runnable(w)
    /\ at[w] = "index_written"
    /\ metaFile' = SaveIndex(index, metadata, indexFile, metaFile, io).metaFile
    /\ at' = [at EXCEPT ![w] = "idle"]
    /\ batch' = [batch EXCEPT ![w] = <<>>]
    /\ vectors' = [vectors EXCEPT ![w] = <<>>]
    /\ loop' = "free"
    /\ UNCHANGED <<index, metadata, indexFile, last, pipeVars, seen>>

\* POST /api/query up to the await of the filing lookup: the search of the
\* Retrieval stage and everything that follows it without suspending.
QuerySearchStep ==
  \E q \in Queries :
    /\ Runnable("r")
    /\ at["r"] = "idle"
    /\ seen' = Observation("search", Len(Search(index, metadata, q, MaxK, "ok", "empty").results))
    /\ at' = [at EXCEPT !["r"] = "sec_fetch"]
    /\ loop' = Hand("r", "sec_fetch")
    /\ UNCHANGED <<storeVars, pipeVars, batch, vectors>>

\* The rest of the request once the filing lookup has answered.
QueryResumeStep ==
  /\ Runnable("r")
  /\ at["r"] = "sec_fetch"
  /\ at' = [at EXCEPT !["r"] = "idle"]
  /\ loop' = "free"
  /\ UNCHANGED <<storeVars, pipeVars, batch, vectors, seen>>

\* GET /api/health and GET /api/stats: get_stats, no await.
StatsStep ==
  /\ loop = "free"
  /\ seen' = Observation("get_stats", 0)
  /\ UNCHANGED <<storeVars, pipeVars, loop, at, batch, vectors>>

\* The process dies at any statement and is started again: every handler is
\* gone, the store is constructed from the artifacts on disk.
CrashRestart ==
  LET r == Construct(Dim, indexFile, metaFile)
  IN  /\ index' = r.index
      /\ metadata' = r.metadata
      /\ loop' = "free"
      /\ at' = [t \in Tasks |-> "idle"]
      /\ batch' = [w \in Writers |-> <<>>]
      /\ vectors' = [w \in Writers |-> <<>>]
      /\ seen' = NoObservation
      /\ UNCHANGED <<indexFile, metaFile, last, pipeVars>>

ConcNext ==
  \/ \E w \in Writers : EmbedBatchStep(w)
  \/ \E w \in Writers : IndexAddStep(w)
  \/ \E w \in Writers : MetadataExtendStep(w)
  \/ \E w \in Writers : WriteIndexStep(w)
  \/ \E w \in Writers : PickleDumpStep(w)
  \/ QuerySearchStep
  \/ QueryResumeStep
  \/ StatsStep
  \/ CrashRestart

ConcSpec == Init /\ [][ConcNext]_vars

\* ------------------------------------------------------------ schema lookups
\* The indexer over a store that holds descriptions of two tables.  The file
\* system is healthy here; Spec covers its failures.
IndexDocumentsCall ==
  \E texts \in UNION {[1..n -> SchemaDocs] : n \in 1..MaxBatch}, embed \in EmbedOutcomes :
    /\ NTotal(index) + Len(texts) <= MaxDocs
    /\ LET r == AddDocuments(index, metadata, indexFile, metaFile, texts, texts, embed, "ok")
       IN  /\ index' = r.index
           /\ metadata' = r.metadata
           /\ indexFile' = r.indexFile
           /\ metaFile' = r.metaFile
           /\ last' = Call("add_documents", embed, IF r.added THEN "ok" ELSE "-",
                           r.raised, 0, "-", <<>>, FALSE)
    /\ UNCHANGED <<pipeVars, concVars>>

\* SchemaIndexer.get_relevant_tables(query, k).
RelevantTablesCall ==
  \E q \in Queries, k \in 1..MaxK, embed \in EmbedOutcomes :
  \E k0 \in (IF NTotal(index) = 0 /\ embed = "ok" THEN K0Outcomes ELSE {"empty"}) :
    LET s == Search(index, metadata, q, k, embed, k0)
    IN  /\ \E tables \in ListOrders(RelevantTables(s.results)) :
             last' = [Call("get_relevant_tables", embed, "-", s.raised, k, q, s.results, FALSE)
                        EXCEPT !.tables = tables]
        /\ UNCHANGED <<index, metadata, indexFile, metaFile>>
        /\ UNCHANGED <<pipeVars, concVars>>

\* SchemaIndexer.get_relevant_columns(query, k).
RelevantColumnsCall ==
  \E q \in Queries, k \in 1..MaxK, embed \in EmbedOutcomes :
  \E k0 \in (IF NTotal(index) = 0 /\ embed = "ok" THEN K0Outcomes ELSE {"empty"}) :
    LET s == Search(index, metadata, q, k, embed, k0)
    IN  /\ last' = [Call("get_relevant_columns", embed, "-", s.raised, k, q, s.results, FALSE)
                      EXCEPT !.columns = RelevantColumns(s.results)]
        /\ UNCHANGED <<index, metadata, indexFile, metaFile>>
        /\ UNCHANGED <<pipeVars, concVars>>

IndexerNext ==
  \/ IndexDocumentsCall
  \/ RelevantTablesCall
  \/ RelevantColumnsCall

IndexerSpec == Init /\ [][IndexerNext]_vars

\* ------------------------------------------------------- vector store claims

\* C3: in every reachable state the number of stored vectors equals the
\* number of metadata records (the two counts get_stats reports).
C3_VectorsMatchMetadata ==
  LET stats == GetStats(index, metadata, Dim)
  IN  stats.total_documents = stats.metadata_count

\* C4: an add_documents whose batched embedding call fails changes neither
\* the vectors, nor the metadata, nor the persisted artifacts, and returns
\* normally.
C4_FailedEmbeddingIsNoOp ==
  [][(last'.op = "add_documents" /\ last'.embed = "fail")
       => (/\ UNCHANGED <<index, metadata, indexFile, metaFile>>
           /\ ~last'.raised)]_vars

C4_Witness ==
  /\ last.op = "add_documents"
  /\ last.embed = "fail"
  /\ NTotal(index) > 0
  /\ indexFile.kind = "ok"

\* C5: with a successful query embedding, search returns without raising and
\* returns exactly min(k, total_count) results.
C5_SearchReturnsMinKTotal ==
  (last.op = "search" /\ last.embed = "ok")
    => (~last.raised /\ Len(last.results) = Min(last.k, NTotal(index)))

RECURSIVE InsertByDistance(_, _)
\* insert hit h = <<record, distance>> after every hit that is not farther
InsertByDistance(sorted, h) ==
  IF sorted = <<>> THEN <<h>>
  ELSE IF Head(sorted)[2] <= h[2] THEN <<Head(sorted)>> \o InsertByDistance(Tail(sorted), h)
  ELSE <<h>> \o sorted

RECURSIVE RankDocuments(_, _)
\* the stored documents in insertion order, each with the distance of its own
\* embedding to the query, sorted by distance, earlier-inserted first on ties
RankDocuments(md, q) ==
  IF md = <<>> THEN <<>>
  ELSE LET n == Len(md)
       IN  InsertByDistance(RankDocuments(SubSeq(md, 1, n - 1), q),
                            <<md[n], L2(Embed(q), Embed(md[n]))>>)

\* C6: a returned result sequence is the leading part of the stored documents
\* ranked by ascending L2 distance to the query, ties by insertion order.
C6_ResultsAreNearestInOrder ==
  (last.op = "search" /\ last.embed = "ok" /\ ~last.raised)
    => /\ Len(last.results) <= Len(metadata)
       /\ last.results = SubSeq(RankDocuments(metadata, last.query), 1, Len(last.results))

\* C8: a store constructed right after a successful save_index holds the
\* vectors and the metadata records the saving store held, in the same order.
C8_SaveLoadRoundTrip ==
  [][(last'.op = "construct" /\ last.op = "save_index" /\ ~last.raised)
       => (index' = index /\ metadata' = metadata)]_vars

C8_Witness ==
  /\ last.op = "construct"
  /\ last.after_save
  /\ NTotal(index) >= 2
  /\ Len(metadata) >= 2

\* C9: constructing a store over artifacts of which one is missing or
\* unreadable, or which hold different document counts, leaves it empty.
C9_BadArtifactsLoadEmpty ==
  (/\ last.op = "construct"
   /\ \/ indexFile.kind # "ok"
      \/ metaFile.kind # "ok"
      \/ indexFile.ntotal # metaFile.n)
    => (NTotal(index) = 0 /\ Len(metadata) = 0)

\* C10: an add_documents whose embeddings have another dimensionality than
\* the index fails and changes neither the vectors, nor the metadata, nor the
\* persisted artifacts.
C10_MismatchedDimensionRejected ==
  [][(last'.op = "add_documents" /\ last'.embed = "wrongdim")
       => (/\ UNCHANGED <<index, metadata, indexFile, metaFile>>
           /\ last'.raised)]_vars

C10_Witness ==
  /\ last.op = "add_documents"
  /\ last.embed = "wrongdim"
  /\ last.raised
  /\ NTotal(index) > 0
  /\ indexFile.kind = "ok"

\* ----------------------------------------------------------- pipeline claims

\* C1: when process_query has resolved in Aborted or Done, exactly one audit
\* record has been persisted for the call.
C1_ExactlyOneAuditRecord == pc \in {"Done", "Aborted"} => Len(audit) = 1

\* the Retrieval stage has returned a failed result
RetrievalFailed == ~retrieval.raised /\ retrieval.result.error # Absent

\* C2: after a failed Retrieval result neither Analysis nor Enrichment has
\* been invoked, a failed audit record is persisted and the failure response
\* is returned.
C2_FailedRetrievalShortCircuits ==
  RetrievalFailed
    => /\ calls.analysis = 0
       /\ calls.enrichment = 0
       /\ pc = "Aborted"
       /\ ~response.success
       /\ response.error = retrieval.result.error
       /\ Len(audit) = 1
       /\ ~audit[1].success

\* C7: in the Retrieval stage a search whose query embedding fails returns
\* an empty result without raising and leaves the store as it was; when both
\* searches fail this way the relevant tables and columns are empty and the
\* translator is still called.
C7_EmbeddingOutageDegradesToEmptySearch ==
  [][(pc = "Retrieval" /\ pc' # "Retrieval")
       => /\ UNCHANGED <<index, metadata, indexFile, metaFile>>
          /\ retrieval'.embed1 = "fail"
               => (/\ retrieval'.search1 = <<>>
                   /\ retrieval'.tables = {}
                   /\ retrieval'.embed2 # "-")
          /\ retrieval'.embed2 = "fail"
               => (/\ retrieval'.search2 = <<>>
                   /\ \A t \in AllTables : retrieval'.columns[t] = <<>>)
          /\ (retrieval'.embed1 = "fail" /\ retrieval'.embed2 = "fail")
               => (~retrieval'.raised /\ retrieval'.translator_calls = 1)]_vars

C7_Witness ==
  /\ pc \in {"Analysis", "Aborted"}
  /\ retrieval.embed1 = "fail"
  /\ retrieval.embed2 = "fail"
  /\ retrieval.translator_calls = 1
  /\ NTotal(index) > 0
  /\ Len(metadata) > 0

\* the translator was called and its provider call failed
TranslatorFailed == retrieval.translator = "error"

\* C13: when the translator returns an error, process_query returns a
\* response with success false, a non-empty error message and the latency,
\* without data, answer, generated query or row count, and the one audit
\* record of the request is marked failed with that error message.
C13_TranslatorErrorResponseAndAudit ==
  TranslatorFailed
    => /\ pc = "Aborted"
       /\ ~response.success
       /\ response.error \notin {Absent, ""}
       /\ response.has_latency
       /\ ~response.has_data
       /\ response.answer = Absent
       /\ response.sql = Absent
       /\ response.row_count = -1
       /\ Len(audit) = 1
       /\ ~audit[1].success
       /\ audit[1].error_message = response.error

\* C14: when the executor fails in the Retrieval stage, every entry of the
\* reasoning trail of an audit record of the request has the Retrieval agent
\* as its agent.
C14_ExecutionFailureTrailIsRetrievalOnly ==
  retrieval.executor = "fails"
    => \A i \in 1..Len(audit) :
         \A j \in 1..Len(audit[i].reasoning) :
           audit[i].reasoning[j].agent = "RetrievalAgent"

C14_Witness ==
  /\ retrieval.executor = "fails"
  /\ pc = "Aborted"
  /\ Len(audit) = 1
  /\ Len(audit[1].reasoning) >= 4
  /\ audit[1].error_message = "Query execution failed"

\* the entries of a reasoning trail
Steps(trail) == {trail[i] : i \in 1..Len(trail)}

\* C15: whatever the two providers answer, the Enrichment stage returns
\* success and the response is a success; a provider error is an entry of
\* the stage's reasoning trail; after a failed market-snapshot fetch the
\* filing lookup is still called when the question asks for it and the rows
\* name a company.
C15_EnrichmentProvidersAreBestEffort ==
  pc = "Done"
    => /\ enrichment_result.success
       /\ response.success
       /\ enrichment_result.yahoo = "error"
            => Entry("EnrichmentAgent", "yahoo_finance_error") \in Steps(enrichment_result.reasoning)
       /\ enrichment_result.sec = "error"
            => Entry("EnrichmentAgent", "sec_edgar_error") \in Steps(enrichment_result.reasoning)
       /\ (/\ enrichment_result.yahoo = "error"
           /\ question = "Compare the stock price of Acme with its latest filing")
            => (/\ enrichment_result.sec # "-"
                /\ enrichment_result.sec_company \in {"Acme Corp", "Private Co"})

C15_Witness ==
  /\ pc = "Done"
  /\ enrichment_result.yahoo = "error"
  /\ enrichment_result.sec = "error"
  /\ enrichment_result.success
  /\ response.success

\* C16: for the question without an enrichment keyword no fetch is called,
\* the stage records the no-op entry and returns no enriched data, and the
\* response labels enrichment as skipped.
C16_NoKeywordEnrichmentIsRecordedNoOp ==
  (pc = "Done" /\ question = "What was total revenue in 2023?")
    => /\ enrichment_result.yahoo_ticker = Absent
       /\ enrichment_result.yahoo = "-"
       /\ enrichment_result.sec_company = Absent
       /\ enrichment_result.sec = "-"
       /\ Entry("EnrichmentAgent", "no_enrichment_needed") \in Steps(enrichment_result.reasoning)
       /\ enrichment_result.enriched_data = {}
       /\ response.enriched_data = {}
       /\ response.enrichment = "skipped"

C16_Witness ==
  /\ pc = "Done"
  /\ question = "What was total revenue in 2023?"
  /\ Len(retrieval.result.data) = 2
  /\ retrieval.result.data[2].ticker = "ACME"
  /\ response.enrichment = "skipped"

\* the question contains "stock price"
AsksStockPrice ==
  question \in {"What is the stock price of Acme?",
                "Compare the stock price of Acme with its latest filing"}

\* the rows the Retrieval stage returned
Rows == retrieval.result.data

\* positions of the rows that have the ticker field
TickerRows == {i \in 1..Len(Rows) : Rows[i].ticker # Absent}

\* the first of them
FirstTickerRow == CHOOSE i \in TickerRows : \A j \in TickerRows : i <= j

\* C17: when the question contains "stock price" and a retrieved row has the
\* ticker field, the market-snapshot fetch is called with the ticker of the
\* first row that has the field.
C17_StockPriceFetchesFirstTicker ==
  (pc = "Done" /\ AsksStockPrice /\ TickerRows # {})
    => /\ enrichment_result.yahoo \in YahooOutcomes
       /\ enrichment_result.yahoo_ticker = Rows[FirstTickerRow].ticker

\* C17 amended: the fetch is called with the ticker of the first row that
\* has the field when that value is not NULL; when it is NULL no fetch is
\* called, whatever later rows hold.
C17_StockPriceFetchesFirstNonNullTicker ==
  (pc = "Done" /\ AsksStockPrice /\ TickerRows # {})
    => IF Rows[FirstTickerRow].ticker # Null
       THEN /\ enrichment_result.yahoo \in YahooOutcomes
            /\ enrichment_result.yahoo_ticker = Rows[FirstTickerRow].ticker
       ELSE /\ enrichment_result.yahoo = "-"
            /\ enrichment_result.yahoo_ticker = Absent

C17_Witness ==
  /\ pc = "Done"
  /\ AsksStockPrice
  /\ Rows = <<RowTotal, RowCompany>>
  /\ enrichment_result.yahoo = "error"
  /\ enrichment_result.yahoo_ticker = "ACME"

\* C18: when the summarization call of the Analysis stage fails, the stage
\* returns success with the template answer built from the row count, the
\* request is neither raised nor aborted, and the response it resolves with
\* is a success carrying that answer.
C18_AnalysisFailureFallsBackToTemplate ==
  calls.an = "provider_error"
    => /\ pc \in {"Enrichment", "Done"}
       /\ ~analysis_result.raised
       /\ analysis_result.success
       /\ analysis_result.answer = "Query returned n results."
       /\ analysis_result.answer_rows = retrieval.result.row_count
       /\ pc = "Done"
            => (/\ response.success
                /\ response.answer = "Query returned n results.")

C18_Witness ==
  /\ calls.an = "provider_error"
  /\ pc = "Done"
  /\ response.success
  /\ response.answer = "Query returned n results."
  /\ analysis_result.answer_rows = 2

\* C19: when the provider call of the translator fails, generate_sql returns
\* to the Retrieval stage a result with no query string, an error text and
\* the relevant tables it was given.
C19_TranslatorFailureIsExplicitError ==
  TranslatorFailed
    => /\ ~retrieval.raised
       /\ retrieval.sql_result.sql = "None"
       /\ retrieval.sql_result.error \notin {Absent, ""}
       /\ retrieval.sql_result.relevant_tables = retrieval.tables
       /\ retrieval.executor = "-"

C19_Witness ==
  /\ TranslatorFailed
  /\ retrieval.tables # {}
  /\ retrieval.sql_result.relevant_tables = retrieval.tables
  /\ retrieval.sql_result.sql = "None"

\* ---------------------------------------------------------- concurrency claims

\* C11: at most one add_documents call is in progress at a time, and no
\* search or get_stats has run while the vectors of a batch were in the index
\* without their metadata records.
C11_AddDocumentsIsSerialized ==
  /\ Cardinality({w \in Writers : at[w] # "idle"}) <= 1
  /\ seen.half = {}

C11_Witness ==
  /\ seen.op = "search"
  /\ seen.total_documents >= 1
  /\ seen.hits >= 1
  /\ at["r"] = "sec_fetch"
  /\ \E w \in Writers : at[w] = "added"

\* C12: at every point in time the two artifacts on disk are either both
\* absent or both readable with the same document count.
C12_ArtifactsDescribeSameState ==
  \/ indexFile = NoIndexFile /\ metaFile = NoMetaFile
  \/ /\ indexFile.kind = "ok"
     /\ metaFile.kind = "ok"
     /\ indexFile.ntotal = metaFile.n

\* ------------------------------------------------------------ indexer claims

RECURSIVE FirstSeenTables(_)
\* the table names of the hits, each once, in the order of its first hit
FirstSeenTables(results) ==
  IF results = <<>> THEN <<>>
  ELSE LET n    == Len(results)
           rest == FirstSeenTables(SubSeq(results, 1, n - 1))
           t    == DocTable(results[n][1])
       IN  IF \E i \in 1..Len(rest) : rest[i] = t THEN rest ELSE Append(rest, t)

\* C20: get_relevant_tables returns the distinct table names of the search
\* results, each once, in the order of their first appearance in the results.
C20_RelevantTablesInFirstSeenOrder ==
  (last.op = "get_relevant_tables" /\ ~last.raised)
    => last.tables = FirstSeenTables(last.results)

RECURSIVE ColumnHits(_, _)
\* the column names of the hits of type column for table t, in hit order
ColumnHits(results, t) ==
  IF results = <<>> THEN <<>>
  ELSE LET doc == Head(results)[1]
       IN  (IF DocType(doc) = "column" /\ DocTable(doc) = t THEN <<DocColumn(doc)>> ELSE <<>>)
             \o ColumnHits(Tail(results), t)

\* the first occurrence of every element of a sequence, order kept
FirstOccurrences(seq) ==
  LET keep == {i \in 1..Len(seq) : \A j \in 1..(i - 1) : seq[j] # seq[i]}
      pos(n) == CHOOSE i \in keep : Cardinality({j \in keep : j < i}) = n - 1
  IN  [n \in 1..Cardinality(keep) |-> seq[pos(n)]]

\* C21: get_relevant_columns returns, for every table, the columns named by
\* the hits of type column for that table, each once, in the order of their
\* first hit; hits of another type contribute nothing.
C21_RelevantColumnsFromColumnHitsOnly ==
  (last.op = "get_relevant_columns" /\ ~last.raised)
    => \A t \in AllTables :
         last.columns[t] = FirstOccurrences(ColumnHits(last.results, t))

C21_Witness ==
  /\ last.op = "get_relevant_columns"
  /\ ~last.raised
  /\ Len(last.results) = 2
  /\ last.results[1][1] = "Table companies, Column ticker (type: VARCHAR)"
  /\ last.results[2][1] = "Table companies, Column ticker (type: VARCHAR)"
  /\ last.columns["companies"] = <<"ticker">>

\* ------------------------------------------------ persistence and order claims

\* C23: when add_documents has returned after adding a batch, the two
\* artifacts hold exactly the vectors and the metadata of the store, and a
\* store constructed from them holds every document the store holds.
C23_AddDocumentsFlushesBeforeReturn ==
  (last.op = "add_documents" /\ last.io = "ok" /\ ~last.raised)
    => /\ indexFile.kind = "ok"
       /\ metaFile.kind = "ok"
       /\ ReadIndex(indexFile) = index
       /\ PickleLoad(metaFile) = metadata
       /\ Construct(Dim, indexFile, metaFile) = [index |-> index, metadata |-> metadata]

C23_Witness ==
  /\ last.op = "add_documents"
  /\ last.io = "ok"
  /\ ~last.raised
  /\ NTotal(index) = 2
  /\ Len(metadata) = 2
  /\ indexFile.ntotal = 2
  /\ metaFile.n = 2

\* C24: an add_documents that adds a batch leaves the stored vectors and
\* records where they were and puts the vectors and records of the batch
\* after them, whether or not an equal document is already stored.
C24_IndexIsAppendOnly ==
  [][(last'.op = "add_documents" /\ last'.io # "-")
       => \E texts \in Batches :
            /\ index'.xb = index.xb \o [i \in 1..Len(texts) |-> Embed(texts[i])]
            /\ metadata' = metadata \o texts]_vars

C24_Witness ==
  /\ last.op = "add_documents"
  /\ last.io = "ok"
  /\ metadata = <<"Table: companies", "Table: companies">>
  /\ index.xb = <<Embed("Table: companies"), Embed("Table: companies")>>

\* ------------------------------------------------------- pipeline order claims

\* C22: Aborted is entered from Retrieval only; after a successful Retrieval
\* result the request is in Analysis, Enrichment or Done, whatever the later
\* stages met, and in Done the response is a success and one audit record
\* marked successful is persisted.
C22_SuccessfulRetrievalReachesDone ==
  /\ pc = "Aborted" => (calls.analysis = 0 /\ calls.enrichment = 0)
  /\ pc \in {"Enrichment", "Done"} => calls.analysis = 1
  /\ retrieval.result.success => pc \in {"Analysis", "Enrichment", "Done"}
  /\ pc = "Done"
       => (/\ calls.enrichment = 1
           /\ response.success
           /\ Len(audit) = 1
           /\ audit[1].success)

\* C25: a process_query call is at every moment either on its way through
\* the stages or resolved in Done or Aborted; it never ends in another way,
\* from which neither Done nor Aborted can be reached any more.
C25_EveryRequestResolves ==
  pc \in {"Idle", "Retrieval", "Analysis", "Enrichment", "Done", "Aborted"}

\* C26: in a successful final response the labels of retrieval and analysis
\* are "completed" and the label of enrichment is "completed" exactly when
\* enriched_data is not empty; a request whose question has an enrichment
\* keyword and whose fetches all were skipped, absent or failed is labelled
\* "skipped".
C26_FlowLabelsFollowEnrichedData ==
  (pc = "Done" /\ response.success)
    => /\ response.flow_retrieval = "completed"
       /\ response.flow_analysis = "completed"
       /\ response.enrichment \in {"completed", "skipped"}
       /\ response.enrichment = "completed" <=> response.enriched_data # {}
       /\ (enrichment_result.yahoo # "data" /\ enrichment_result.sec # "data")
            => response.enrichment = "skipped"

C26_Witness ==
  /\ pc = "Done"
  /\ response.success
  /\ question = "Compare the stock price of Acme with its latest filing"
  /\ enrichment_result.yahoo = "error"
  /\ enrichment_result.sec = "non200"
  /\ response.enrichment = "skipped"

\* the response process_query builds from the results of the stages
ResponseOfStages ==
  IF retrieval.result.success
  THEN [success |-> TRUE, error |-> Absent, sql |-> retrieval.result.sql,
        answer |-> analysis_result.answer, has_data |-> TRUE,
        row_count |-> retrieval.result.row_count,
        enriched_data |-> enrichment_result.enriched_data,
        enrichment |-> IF enrichment_result.enriched_data = {} THEN "skipped" ELSE "completed",
        flow_retrieval |-> "completed", flow_analysis |-> "completed",
        has_latency |-> TRUE]
  ELSE [success |-> FALSE, error |-> retrieval.result.error, sql |-> Absent,
        answer |-> Absent, has_data |-> FALSE, row_count |-> -1, enriched_data |-> {},
        enrichment |-> Absent, flow_retrieval |-> Absent, flow_analysis |-> Absent,
        has_latency |-> TRUE]

C28_EmptyQueryIsNeverExecuted ==
  /\ retrieval.translator \in {"empty", "fence_only", "error"}
       => (/\ retrieval.executor_calls = 0
           /\ retrieval.executor = "-"
           /\ ~retrieval.result.success
           /\ retrieval.result.sql = Absent
           /\ Entry("RetrievalAgent", "sql_generation_failed") \in Steps(retrieval.result.reasoning)
           /\ \A i \in 1..Len(audit) : audit[i].generated_sql = Absent)
  /\ retrieval.executor_calls > 0 => retrieval.sql_result.sql \notin {"", "None", Absent}
  /\ (~retrieval.result.success /\ retrieval.result.sql # Absent)
       => (/\ retrieval.executor = "fails"
           /\ retrieval.result.sql = retrieval.sql_result.sql)

C28_Witness ==
  /\ retrieval.translator = "fence_only"
  /\ pc = "Aborted"
  /\ retrieval.executor_calls = 0
  /\ Len(audit) = 1
  /\ audit[1].generated_sql = Absent

====
